---- MODULE Spec2Model ----
(***************************************************************************)
(* Model of tracecat/integrations/_registry.py: the Registry singleton,    *)
(* the register decorator factory, and the secret-scoped wrapper that is   *)
(* built around every registered integration.                              *)
(*                                                                         *)
(* Python dicts keep insertion order, so the two maps are sequences of     *)
(* [key, value] entries.  os.environ is a function from variable names to  *)
(* a value or Absent.  Each thread that uses the registry has a program    *)
(* counter and the locals of the wrapper it is executing.                  *)
(***************************************************************************)
EXTENDS Integers, Sequences, FiniteSets, TLC

VARIABLES
    constructed,   \* Registry._instance is not None
    integrations,  \* Registry._integrations
    metadata,      \* Registry._metadata
    registered,    \* history: [key, spec] of every register call that returned
    reg,           \* per thread: the decorator_register call in progress
    environ,       \* os.environ
    pc,            \* per thread: position in the wrapper
    cur,           \* per thread: the wrapper (closure) being executed
    frame,         \* per thread: the call given to the wrapper, its role and
                   \* kwargs locals, the role sent to the fetch, the call
                   \* forwarded to func
    secret_objs,   \* per thread: the wrapper's local secret_objs
    idx,           \* per thread: position of the set / unset loops
    pending,       \* per thread: what the try block produced (return / raise)
    outcome,       \* per thread: what the last operation gave its caller
    envBefore,     \* per thread: os.environ when the wrapper was entered
    applied,       \* per thread: pairs written by _set_secrets
    removed,       \* per thread: keys deleted by _unset_secrets
    called,        \* per thread: func(*args, **kwargs) was entered
    fetched,       \* per thread: "no", "ok" or "failed": the secret fetch
    bodyOps        \* per thread: environment operations done by the body

vars == <<constructed, integrations, metadata, registered, reg, environ, pc, cur, frame,
          secret_objs,
          idx, pending, outcome, envBefore, applied, removed, called, fetched,
          bodyOps>>

regVars == <<constructed, integrations, metadata, registered, reg>>
locVars == <<cur, frame, secret_objs, idx, pending, envBefore, applied, removed,
             called, fetched, bodyOps>>

-----------------------------------------------------------------------------
(* Bounds *)

MaxKV == 2          \* key/value pairs per fetched secret record
MaxBodyOps == 1     \* environment operations one callable body performs

-----------------------------------------------------------------------------
(* Input universes *)

Threads == {1, 2}
\* the caller of the single-caller specifications
SeqThread == CHOOSE t \in Threads : \A u \in Threads : t <= u

Names == {"f", "g"}
NoName == "<no __name__>"
Descriptions == {"d1", "d2"}
SecretLists == {<<>>, <<"s1", "s2">>}
EnvKeys == {"K1", "K2"}
Absent == "<absent>"
EnvVals == {"v0", "v1"}
SecretVals == {"v1"}
Results == {"r1", "r2"}
DefaultPlatform == "default"
NoKey == <<>>

\* The objects handed to the decorator: functions, callables without a
\* __name__ (functools.partial), named non-callables (modules), plain values.
\* sigOK = FALSE marks a callable with a parameter whose type constraint is
\* not representable; an object that is not callable has no parameters.
\* annotated = FALSE marks a callable without __annotations__ (a builtin such
\* as len); it matters only to an object that gets as far as line 108.
Objects ==
    {o \in [name : Names \cup {NoName}, isCallable : BOOLEAN, sigOK : BOOLEAN,
            annotated : BOOLEAN] :
        /\ ~o.isCallable => o.sigOK
        /\ ~o.annotated => (o.isCallable /\ o.sigOK /\ o.name # NoName)}

NoFunc == [name |-> NoName, isCallable |-> FALSE, sigOK |-> TRUE, annotated |-> TRUE]
NoWrapper == [key |-> NoKey, func |-> NoFunc, secrets |-> <<>>]

Pairs == [key : EnvKeys, value : SecretVals]
KVSeqs == UNION {[1..n -> Pairs] : n \in 0..MaxKV}
\* the records the store holds when several callers are explored
ConcKVSeqs == {q \in KVSeqs : Len(q) <= 1}
\* a value os.environ refuses (an embedded null byte): the write raises
BadVal == "v\\0"
\* the records the store holds when a refused value is explored
ApplyKVSeqs ==
    UNION {[1..n -> [key : EnvKeys, value : SecretVals \cup {BadVal}]] : n \in 0..1}

-----------------------------------------------------------------------------
(* Outcomes of an operation, as seen by its caller *)

None == [kind |-> "none", val |-> "-"]
Return(v) == [kind |-> "return", val |-> v]
Raise(e) == [kind |-> "raise", val |-> e]

\* tick flips on every operation a thread starts, so that two consecutive
\* calls with the same result are still two steps.
Out(prev, op, key, arg, res) ==
    [op |-> op, key |-> key, arg |-> arg, kind |-> res.kind, val |-> res.val,
     tick |-> 1 - prev.tick]
NoOutcome ==
    [op |-> "none", key |-> NoKey, arg |-> NoFunc, kind |-> "none", val |-> "-",
     tick |-> 0]

-----------------------------------------------------------------------------
(* dict helpers (insertion-ordered) *)

DictKeys(d) == {d[i].key : i \in DOMAIN d}

DictGet(d, k) ==
    IF k \in DictKeys(d)
    THEN d[CHOOSE i \in DOMAIN d : d[i].key = k].value
    ELSE NoWrapper

DictSet(d, k, v) ==
    IF k \in DictKeys(d)
    THEN [i \in DOMAIN d |-> IF d[i].key = k THEN [key |-> k, value |-> v] ELSE d[i]]
    ELSE Append(d, [key |-> k, value |-> v])

-----------------------------------------------------------------------------
(* os.environ *)

EnvKeySet(env) == {k \in EnvKeys : env[k] # Absent}
\* os.environ[k] = v raises ValueError on a value it cannot encode
WriteOk(kv) == kv.value # BadVal
SetEnv(env, k, v) == [env EXCEPT ![k] = v]
DelEnv(env, k) == [env EXCEPT ![k] = Absent]

-----------------------------------------------------------------------------
(* Collaborators imported by _registry.py *)

\* tracecat.integrations._meta.validate_type_constraints: TRUE when every
\* parameter's type constraint is representable, else it raises.
validate_type_constraints(func) == func.sigOK

\* tracecat.integrations.utils.get_integration_platform
get_integration_platform(func) == DefaultPlatform

\* tracecat.integrations.utils.get_integration_key
get_integration_key(func) == <<get_integration_platform(func), func.name>>

\* tracecat.secrets.batch_get_secrets: one record per requested name, or the
\* whole batch fails (the failure is the FetchFail action).  stored is the
\* set of key lists a record of the store may hold.
batch_get_secrets(names, stored) ==
    {objs \in [1..Len(names) -> [name : {names[i] : i \in 1..Len(names)}, keys : stored]] :
        \A i \in 1..Len(names) : objs[i].name = names[i]}

-----------------------------------------------------------------------------
(* Registry *)

\* a constructor that rebuilds the maps on every call
Construct_resets(t) ==
    /\ pc[t] = "idle"
    /\ reg[t].stage = "none"
    /\ constructed' = TRUE
    /\ integrations' = <<>>
    /\ metadata' = <<>>
    /\ UNCHANGED <<registered, reg>>
    /\ outcome' = [outcome EXCEPT ![t] = Out(@, "construct", NoKey, NoFunc, Return("instance"))]
    /\ UNCHANGED <<environ, pc, locVars>>

\* Registry.__new__
Construct(t) ==
    /\ pc[t] = "idle"
    /\ reg[t].stage = "none"
    /\ IF ~constructed
       THEN /\ constructed' = TRUE
            /\ integrations' = <<>>
            /\ metadata' = <<>>
            /\ UNCHANGED <<registered, reg>>
       ELSE UNCHANGED regVars
    /\ outcome' = [outcome EXCEPT ![t] = Out(@, "construct", NoKey, NoFunc, Return("instance"))]
    /\ UNCHANGED <<environ, pc, locVars>>

\* Registry._create_spec
create_spec(func, description) ==
    [name |-> func.name, description |-> description,
     platform |-> get_integration_platform(func)]

\* the closure built at lines 67-97: it captures key, func and secrets
MakeWrapper(key, func, secrets) == [key |-> key, func |-> func, secrets |-> secrets]

\* the dict literal of lines 105-111
MakeMetadata(func, description) ==
    [platform |-> get_integration_platform(func),
     description |-> description,
     specification |-> create_spec(func, description)]

\* line 62 reads func.__name__
HasName(func) == func.name # NoName

\* line 108 reads func.__annotations__
HasAnnotations(func) == func.annotated

\* a register that never finds the key: the second registration overwrites
AlreadyRegistered_never(key) == FALSE

\* a duplicate check that looks the key up in the metadata map
AlreadyRegistered_inMetadata(key) == key \in DictKeys(metadata)

\* line 99
AlreadyRegistered(key) == key \in DictKeys(integrations)

\* the checks of decorator_register in the order the code runs them:
\* lines 62, 63, 99, 101
RegisterCheck(func) ==
    IF ~HasName(func) THEN "AttributeError"
    ELSE IF ~validate_type_constraints(func) THEN "UnsupportedSignature"
    ELSE IF AlreadyRegistered(get_integration_key(func)) THEN "DuplicateRegistration"
    ELSE IF ~func.isCallable THEN "InvalidIntegration"
    ELSE "ok"

\* Registry.register(description, secrets)(func)
decorator_register(t, description, secrets, func) ==
    /\ constructed
    /\ pc[t] = "idle"
    /\ LET chk == RegisterCheck(func)
           key == IF HasName(func) THEN get_integration_key(func) ELSE NoKey
       IN  IF chk # "ok"
           THEN /\ outcome' = [outcome EXCEPT ![t] = Out(@, "register", key, func, Raise(chk))]
                /\ UNCHANGED <<integrations, metadata, registered>>
           ELSE \* line 104 stores the wrapper before lines 105-111 build the
                \* metadata; a raise in between leaves the wrapper stored
                /\ integrations' = DictSet(integrations, key, MakeWrapper(key, func, secrets))
                /\ IF HasAnnotations(func)
                   THEN /\ metadata' = DictSet(metadata, key, MakeMetadata(func, description))
                        /\ registered' = Append(registered,
                               [key |-> key, spec |-> create_spec(func, description)])
                        /\ outcome' = [outcome EXCEPT ![t] =
                               Out(@, "register", key, func, Return("wrapper"))]
                   ELSE /\ UNCHANGED <<metadata, registered>>
                        /\ outcome' = [outcome EXCEPT ![t] =
                               Out(@, "register", key, func, Raise("AttributeError"))]
    /\ UNCHANGED <<constructed, reg, environ, pc, locVars>>

\* the frame of a decorator_register call: what it captured, how far it got
NoReg ==
    [stage |-> "none", key |-> NoKey, func |-> NoFunc, description |-> "-",
     secrets |-> <<>>]

\* decorator_register up to line 102: the reads of func and the two checks;
\* a call that passes them is about to run line 104
RegStart(t, description, secrets, func) ==
    /\ constructed
    /\ pc[t] = "idle"
    /\ reg[t].stage = "none"
    /\ LET chk == RegisterCheck(func)
           key == IF HasName(func) THEN get_integration_key(func) ELSE NoKey
       IN  IF chk # "ok"
           THEN /\ outcome' = [outcome EXCEPT ![t] = Out(@, "register", key, func, Raise(chk))]
                /\ UNCHANGED reg
           ELSE /\ reg' = [reg EXCEPT ![t] =
                       [stage |-> "checked", key |-> key, func |-> func,
                        description |-> description, secrets |-> secrets]]
                /\ UNCHANGED outcome
    /\ UNCHANGED <<constructed, integrations, metadata, registered, environ, pc, locVars>>

\* line 104: self._integrations[key] = wrapper
RegStoreInt(t) ==
    /\ reg[t].stage = "checked"
    /\ integrations' = DictSet(integrations, reg[t].key,
                           MakeWrapper(reg[t].key, reg[t].func, reg[t].secrets))
    /\ reg' = [reg EXCEPT ![t].stage = "stored"]
    /\ UNCHANGED <<constructed, metadata, registered, environ, pc, outcome, locVars>>

\* lines 105-112: build the metadata, store it, return the wrapper
RegStoreMeta(t) ==
    /\ reg[t].stage = "stored"
    /\ LET r == reg[t]
       IN  IF HasAnnotations(r.func)
           THEN /\ metadata' = DictSet(metadata, r.key, MakeMetadata(r.func, r.description))
                /\ registered' = Append(registered,
                       [key |-> r.key, spec |-> create_spec(r.func, r.description)])
                /\ outcome' = [outcome EXCEPT ![t] =
                       Out(@, "register", r.key, r.func, Return("wrapper"))]
           ELSE /\ UNCHANGED <<metadata, registered>>
                /\ outcome' = [outcome EXCEPT ![t] =
                       Out(@, "register", r.key, r.func, Raise("AttributeError"))]
    /\ reg' = [reg EXCEPT ![t] = NoReg]
    /\ UNCHANGED <<constructed, integrations, environ, pc, locVars>>

\* a lookup without the membership test of line 164
get_integration_unchecked(name) == Return("wrapper")

\* Registry.get_integration
get_integration(name) ==
    IF name \notin DictKeys(integrations) THEN Raise("NotFound") ELSE Return("wrapper")

\* Registry.__getitem__ : registry[name]
GetItem(t, name) ==
    /\ constructed
    /\ pc[t] = "idle"
    /\ outcome' = [outcome EXCEPT ![t] = Out(@, "getitem", name, NoFunc, get_integration(name))]
    /\ UNCHANGED <<regVars, environ, pc, locVars>>

\* Registry.__contains__
Contains(name) == name \in DictKeys(integrations)

\* Registry.list_integrations: the keys of _integrations in insertion order
list_integrations == [i \in DOMAIN integrations |-> integrations[i].key]

\* Registry.get_registered_integration_specs: metadata[key]["specification"]
\* for every key of _integrations; a key without metadata raises KeyError
get_registered_integration_specs ==
    IF \E i \in DOMAIN integrations : integrations[i].key \notin DictKeys(metadata)
    THEN [kind |-> "raise", val |-> "KeyError", specs |-> <<>>]
    ELSE [kind |-> "return", val |-> "specs",
          specs |-> [i \in DOMAIN integrations |->
                       DictGet(metadata, integrations[i].key).specification]]

\* registry.list_integrations()
ListIntegrations(t) ==
    /\ constructed
    /\ pc[t] = "idle"
    /\ outcome' = [outcome EXCEPT ![t] = Out(@, "list", NoKey, NoFunc, Return("keys"))]
    /\ UNCHANGED <<regVars, environ, pc, locVars>>

\* registry.get_registered_integration_specs()
GetSpecs(t) ==
    /\ constructed
    /\ pc[t] = "idle"
    /\ outcome' = [outcome EXCEPT ![t] =
          Out(@, "specs", NoKey, NoFunc,
              [kind |-> get_registered_integration_specs.kind,
               val |-> get_registered_integration_specs.val])]
    /\ UNCHANGED <<regVars, environ, pc, locVars>>

-----------------------------------------------------------------------------
(* The wrapper, lines 67-97 *)

\* the (key, value) pairs of a list of records in the order the nested loops
\* of _set_secrets and _unset_secrets visit them
RECURSIVE FlatKV(_)
FlatKV(objs) ==
    IF objs = <<>> THEN <<>> ELSE Head(objs).keys \o FlatKV(Tail(objs))

\* Registry._get_secrets
get_secrets(names, stored) == batch_get_secrets(names, stored)

\* the result a finished wrapper hands to its caller
Finished(t, res) == [outcome EXCEPT ![t].kind = res.kind, ![t].val = res.val]

\* lines 95-97: the finally block is entered with what the try block produced
EnterFinally(t, res) ==
    /\ pending' = [pending EXCEPT ![t] = res]
    /\ idx' = [idx EXCEPT ![t] = 1]
    /\ IF FlatKV(secret_objs[t]) = <<>>
       THEN /\ pc' = [pc EXCEPT ![t] = "done"]
            /\ outcome' = Finished(t, res)
       ELSE /\ pc' = [pc EXCEPT ![t] = "unset"]
            /\ UNCHANGED outcome

\* the call a caller makes: positional arguments and keyword arguments, the
\* latter a set of <<name, value>> pairs with one pair per name
RoleKw == "__role"
ServiceRole == "service"
Roles == {"u1", "u2"}
KwArgs ==
    {kw \in SUBSET ({<<RoleKw, r>> : r \in Roles} \cup {<<"x", "a1">>}) :
        \A p, q \in kw : p[1] = q[1] => p = q}
Calls == [args : {<<>>, <<"a1">>, <<"a1", "a2">>}, kwargs : KwArgs]
NoArgs == [args |-> <<>>, kwargs |-> {}]
NotCalled == [args |-> <<"<not called>">>, kwargs |-> {}]
NoFrame ==
    [given |-> NoArgs, role |-> "-", args |-> <<>>, kwargs |-> {}, sent |-> "-",
     fwd |-> NotCalled]

\* a wrapper that reads the role and leaves it among the keyword arguments
PopRole_keeps(kwargs) ==
    [role |-> IF \E p \in kwargs : p[1] = RoleKw
              THEN (CHOOSE p \in kwargs : p[1] = RoleKw)[2]
              ELSE ServiceRole,
     rest |-> kwargs]

\* line 78: kwargs.pop("__role", Role(type="service"))
PopRole(kwargs) ==
    [role |-> IF \E p \in kwargs : p[1] = RoleKw
              THEN (CHOOSE p \in kwargs : p[1] = RoleKw)[2]
              ELSE ServiceRole,
     rest |-> {p \in kwargs : p[1] # RoleKw}]

\* line 91: func(*args, **kwargs) with the wrapper's locals
Forwarded(fr) == [args |-> fr.args, kwargs |-> fr.kwargs]

\* registry[name](*args, **kwargs): lookup, then lines 77-84
InvokeWith(t, name, call) ==
    /\ constructed
    /\ pc[t] = "idle"
    /\ IF get_integration(name).kind = "raise"
       THEN /\ outcome' = [outcome EXCEPT ![t] = Out(@, "invoke", name, NoFunc, get_integration(name))]
            /\ UNCHANGED <<pc, locVars>>
       ELSE LET w == DictGet(integrations, name)
            IN  /\ cur' = [cur EXCEPT ![t] = w]
                /\ secret_objs' = [secret_objs EXCEPT ![t] = <<>>]
                /\ frame' = [frame EXCEPT ![t] =
                       [given |-> call, role |-> PopRole(call.kwargs).role,
                        args |-> call.args, kwargs |-> PopRole(call.kwargs).rest,
                        sent |-> "-", fwd |-> NotCalled]]
                /\ envBefore' = [envBefore EXCEPT ![t] = environ]
                /\ pc' = [pc EXCEPT ![t] = IF w.secrets # <<>> THEN "fetch" ELSE "call"]
                /\ outcome' = [outcome EXCEPT ![t] =
                                  [Out(@, "invoke", name, NoFunc, None) EXCEPT !.tick = 0]]
                /\ UNCHANGED <<idx, pending, applied, removed, called, fetched,
                               bodyOps>>
    /\ UNCHANGED <<regVars, environ>>

\* registry[name](): a call without arguments
Invoke(t, name) == InvokeWith(t, name, NoArgs)

\* lines 86-89: the fetch succeeded, _set_secrets starts
FetchOk(t, stored) ==
    /\ pc[t] = "fetch"
    /\ \E objs \in get_secrets(cur[t].secrets, stored) :
          /\ secret_objs' = [secret_objs EXCEPT ![t] = objs]
          /\ pc' = [pc EXCEPT ![t] = IF FlatKV(objs) = <<>> THEN "call" ELSE "set"]
    /\ idx' = [idx EXCEPT ![t] = 1]
    /\ fetched' = [fetched EXCEPT ![t] = "ok"]
    /\ frame' = [frame EXCEPT ![t].sent = frame[t].role]
    /\ UNCHANGED <<regVars, environ, cur, pending, outcome, envBefore, applied,
                   removed, called, bodyOps>>

\* a wrapper that logs the fetch error and goes on to call the function
FetchFail_swallowed(t) ==
    /\ pc[t] = "fetch"
    /\ fetched' = [fetched EXCEPT ![t] = "failed"]
    /\ pc' = [pc EXCEPT ![t] = "call"]
    /\ frame' = [frame EXCEPT ![t].sent = frame[t].role]
    /\ UNCHANGED <<regVars, environ, cur, secret_objs, idx, pending, outcome,
                   envBefore, applied, removed, called, bodyOps>>

\* lines 86-88 raise: secret_objs is still [], lines 92-97 run
FetchFail(t) ==
    /\ pc[t] = "fetch"
    /\ fetched' = [fetched EXCEPT ![t] = "failed"]
    /\ EnterFinally(t, Raise("SecretFetchFailed"))
    /\ frame' = [frame EXCEPT ![t].sent = frame[t].role]
    /\ UNCHANGED <<regVars, environ, cur, secret_objs, envBefore, applied,
                   removed, called, bodyOps>>

\* a _set_secrets that returns after its first pair
SetStep_stopsEarly(t) ==
    /\ pc[t] = "set"
    /\ LET kvs == FlatKV(secret_objs[t])
           kv == kvs[idx[t]]
       IN  /\ WriteOk(kv)
           /\ environ' = SetEnv(environ, kv.key, kv.value)
           /\ applied' = [applied EXCEPT ![t] = @ \cup {kv}]
           /\ idx' = [idx EXCEPT ![t] = @ + 1]
           /\ pc' = [pc EXCEPT ![t] = "call"]
    /\ UNCHANGED <<regVars, cur, frame, secret_objs, pending, outcome, envBefore,
                   removed, called, fetched, bodyOps>>

\* Registry._set_secrets: one os.environ[kv.key] = kv.value
SetStep(t) ==
    /\ pc[t] = "set"
    /\ LET kvs == FlatKV(secret_objs[t])
           kv == kvs[idx[t]]
       IN  /\ WriteOk(kv)
           /\ environ' = SetEnv(environ, kv.key, kv.value)
           /\ applied' = [applied EXCEPT ![t] = @ \cup {kv}]
           /\ idx' = [idx EXCEPT ![t] = @ + 1]
           /\ pc' = [pc EXCEPT ![t] = IF idx[t] = Len(kvs) THEN "call" ELSE "set"]
    /\ UNCHANGED <<regVars, cur, frame, secret_objs, pending, outcome, envBefore,
                   removed, called, fetched, bodyOps>>

\* Registry._set_secrets: os.environ[kv.key] = kv.value raises; lines 92-97
\* run with secret_objs holding every fetched record
SetFail(t) ==
    /\ pc[t] = "set"
    /\ ~WriteOk(FlatKV(secret_objs[t])[idx[t]])
    /\ EnterFinally(t, Raise("ValueError"))
    /\ UNCHANGED <<regVars, environ, cur, frame, secret_objs, envBefore, applied,
                   removed, called, fetched, bodyOps>>

\* line 91, the callable body: it may write or delete an environment variable
BodyEnvOp(t) ==
    /\ pc[t] = "call"
    /\ bodyOps[t] < MaxBodyOps
    /\ \E k \in EnvKeys :
          \/ \E v \in EnvVals : environ' = SetEnv(environ, k, v)
          \/ environ[k] # Absent /\ environ' = DelEnv(environ, k)
    /\ called' = [called EXCEPT ![t] = TRUE]
    /\ bodyOps' = [bodyOps EXCEPT ![t] = @ + 1]
    /\ frame' = [frame EXCEPT ![t].fwd = Forwarded(frame[t])]
    /\ UNCHANGED <<regVars, pc, cur, secret_objs, idx, pending, outcome,
                   envBefore, applied, removed, fetched>>

\* line 91, the callable returns
BodyReturn(t) ==
    /\ pc[t] = "call"
    /\ called' = [called EXCEPT ![t] = TRUE]
    /\ \E r \in Results : EnterFinally(t, Return(r))
    /\ frame' = [frame EXCEPT ![t].fwd = Forwarded(frame[t])]
    /\ UNCHANGED <<regVars, environ, cur, secret_objs, envBefore, applied,
                   removed, fetched, bodyOps>>

\* lines 91-94, the callable raises: logged and re-raised
BodyRaise(t) ==
    /\ pc[t] = "call"
    /\ called' = [called EXCEPT ![t] = TRUE]
    /\ EnterFinally(t, Raise("IntegrationError"))
    /\ frame' = [frame EXCEPT ![t].fwd = Forwarded(frame[t])]
    /\ UNCHANGED <<regVars, environ, cur, secret_objs, envBefore, applied,
                   removed, fetched, bodyOps>>

\* line 93: logger.error raises while the callable's error is handled; the
\* finally block still runs, with the logging error in flight
ErrorLogFail(t) ==
    /\ pc[t] = "call"
    /\ called' = [called EXCEPT ![t] = TRUE]
    /\ EnterFinally(t, Raise("LogError"))
    /\ frame' = [frame EXCEPT ![t].fwd = Forwarded(frame[t])]
    /\ UNCHANGED <<regVars, environ, cur, secret_objs, envBefore, applied,
                   removed, fetched, bodyOps>>

\* the positions of the unset loop at which a log call is made: line 96 and
\* the first line 131 before the first pair, line 131 before each record
RecordStarts(objs) ==
    {1 + Len(FlatKV(SubSeq(objs, 1, j))) : j \in 0..(Len(objs) - 1)}

\* line 96 or line 131: logger.info raises inside the finally block, the
\* rest of _unset_secrets is not executed
UnsetLogFail(t) ==
    /\ pc[t] = "unset"
    /\ idx[t] \in RecordStarts(secret_objs[t])
    /\ pc' = [pc EXCEPT ![t] = "done"]
    /\ outcome' = Finished(t, Raise("LogError"))
    /\ UNCHANGED <<regVars, environ, cur, frame, secret_objs, idx, pending, envBefore,
                   applied, removed, called, fetched, bodyOps>>

\* Registry._set_secrets as a whole: the environment it leaves and the error
\* it raises
RECURSIVE set_secrets(_, _)
set_secrets(env, kvs) ==
    IF kvs = <<>> THEN [env |-> env, err |-> "none"]
    ELSE IF ~WriteOk(Head(kvs)) THEN [env |-> env, err |-> "ValueError"]
    ELSE set_secrets(SetEnv(env, Head(kvs).key, Head(kvs).value), Tail(kvs))

\* Registry._unset_secrets as a whole
RECURSIVE unset_secrets(_, _)
unset_secrets(env, kvs) ==
    IF kvs = <<>> THEN [env |-> env, err |-> "none"]
    ELSE IF env[Head(kvs).key] = Absent THEN [env |-> env, err |-> "KeyError"]
    ELSE unset_secrets(DelEnv(env, Head(kvs).key), Tail(kvs))

\* Registry._unset_secrets: one del os.environ[kv.key] that finds the key
UnsetDel(t) ==
    /\ pc[t] = "unset"
    /\ LET kvs == FlatKV(secret_objs[t])
           kv == kvs[idx[t]]
       IN  /\ environ[kv.key] # Absent
           /\ environ' = DelEnv(environ, kv.key)
           /\ removed' = [removed EXCEPT ![t] = @ \cup {kv.key}]
           /\ idx' = [idx EXCEPT ![t] = @ + 1]
           /\ IF idx[t] = Len(kvs)
              THEN /\ pc' = [pc EXCEPT ![t] = "done"]
                   /\ outcome' = Finished(t, pending[t])
              ELSE UNCHANGED <<pc, outcome>>
    /\ UNCHANGED <<regVars, cur, frame, secret_objs, pending, envBefore, applied,
                   called, fetched, bodyOps>>

\* Registry._unset_secrets: del os.environ[kv.key] on a missing key raises
\* KeyError out of the finally block
UnsetKeyError(t) ==
    /\ pc[t] = "unset"
    /\ LET kvs == FlatKV(secret_objs[t])
           kv == kvs[idx[t]]
       IN  environ[kv.key] = Absent
    /\ pc' = [pc EXCEPT ![t] = "done"]
    /\ outcome' = Finished(t, Raise("KeyError"))
    /\ UNCHANGED <<regVars, environ, cur, frame, secret_objs, idx, pending, envBefore,
                   applied, removed, called, fetched, bodyOps>>

\* the caller has the wrapper's result; the wrapper's frame is gone
Finish(t) ==
    /\ pc[t] = "done"
    /\ pc' = [pc EXCEPT ![t] = "idle"]
    /\ cur' = [cur EXCEPT ![t] = NoWrapper]
    /\ frame' = [frame EXCEPT ![t] = NoFrame]
    /\ secret_objs' = [secret_objs EXCEPT ![t] = <<>>]
    /\ idx' = [idx EXCEPT ![t] = 1]
    /\ pending' = [pending EXCEPT ![t] = None]
    /\ envBefore' = [envBefore EXCEPT ![t] = environ]
    /\ applied' = [applied EXCEPT ![t] = {}]
    /\ removed' = [removed EXCEPT ![t] = {}]
    /\ called' = [called EXCEPT ![t] = FALSE]
    /\ fetched' = [fetched EXCEPT ![t] = "no"]
    /\ bodyOps' = [bodyOps EXCEPT ![t] = 0]
    /\ UNCHANGED <<regVars, environ, outcome>>

-----------------------------------------------------------------------------
(* Specifications *)

LookupKeys == {<<DefaultPlatform, n>> : n \in Names \cup {"h"}}

\* the objects offered to the decorator when invocations are explored too
SeqObjects == {o \in Objects : o.name # "g"}

Init ==
    /\ constructed = FALSE
    /\ integrations = <<>>
    /\ metadata = <<>>
    /\ registered = <<>>
    /\ reg = [t \in Threads |-> NoReg]
    /\ environ \in [EnvKeys -> {Absent, "v0"}]
    /\ pc = [t \in Threads |-> "idle"]
    /\ cur = [t \in Threads |-> NoWrapper]
    /\ frame = [t \in Threads |-> NoFrame]
    /\ secret_objs = [t \in Threads |-> <<>>]
    /\ idx = [t \in Threads |-> 1]
    /\ pending = [t \in Threads |-> None]
    /\ outcome = [t \in Threads |-> NoOutcome]
    /\ envBefore = [t \in Threads |-> environ]
    /\ applied = [t \in Threads |-> {}]
    /\ removed = [t \in Threads |-> {}]
    /\ called = [t \in Threads |-> FALSE]
    /\ fetched = [t \in Threads |-> "no"]
    /\ bodyOps = [t \in Threads |-> 0]

\* one caller: every operation runs to completion before the next starts
Next ==
    \/ Construct(SeqThread)
    \/ \E d \in Descriptions, s \in SecretLists, f \in SeqObjects :
          decorator_register(SeqThread, d, s, f)
    \/ \E k \in LookupKeys : GetItem(SeqThread, k)
    \/ ListIntegrations(SeqThread)
    \/ GetSpecs(SeqThread)
    \/ \E k \in LookupKeys : Invoke(SeqThread, k)
    \/ FetchOk(SeqThread, KVSeqs)
    \/ FetchFail(SeqThread)
    \/ SetStep(SeqThread)
    \/ BodyEnvOp(SeqThread)
    \/ BodyReturn(SeqThread)
    \/ BodyRaise(SeqThread)
    \/ UnsetDel(SeqThread)
    \/ UnsetKeyError(SeqThread)
    \/ Finish(SeqThread)

Spec == Init /\ [][Next]_vars

\* one caller that only registers and looks up, over every kind of object
NextReg ==
    \/ Construct(SeqThread)
    \/ \E d \in Descriptions, s \in SecretLists, f \in Objects :
          decorator_register(SeqThread, d, s, f)
    \/ \E k \in LookupKeys : GetItem(SeqThread, k)
    \/ ListIntegrations(SeqThread)
    \/ GetSpecs(SeqThread)

SpecReg == Init /\ [][NextReg]_vars

\* several callers in one process: the steps of their wrappers interleave.
\* One integration that declares secrets is registered at startup; its body
\* leaves the environment alone.
ConcObjects ==
    {o \in Objects : o.name = "f" /\ o.isCallable /\ o.sigOK /\ o.annotated}
ConcKeys == {get_integration_key(o) : o \in ConcObjects}

NextConc ==
    \/ Construct(SeqThread)
    \/ \E f \in ConcObjects :
          decorator_register(SeqThread, "d1", <<"s1", "s2">>, f)
    \/ \E t \in Threads, k \in ConcKeys : Invoke(t, k)
    \/ \E t \in Threads : FetchOk(t, ConcKVSeqs)
    \/ \E t \in Threads : FetchFail(t)
    \/ \E t \in Threads : SetStep(t)
    \/ \E t \in Threads : BodyReturn(t)
    \/ \E t \in Threads : BodyRaise(t)
    \/ \E t \in Threads : UnsetDel(t)
    \/ \E t \in Threads : UnsetKeyError(t)
    \/ \E t \in Threads : Finish(t)

SpecConc == Init /\ [][NextConc]_vars

\* one caller, one integration that declares secrets, a store that may hold
\* a value os.environ refuses
NextApply ==
    \/ Construct(SeqThread)
    \/ \E f \in ConcObjects :
          decorator_register(SeqThread, "d1", <<"s1", "s2">>, f)
    \/ \E k \in ConcKeys : Invoke(SeqThread, k)
    \/ FetchOk(SeqThread, ApplyKVSeqs)
    \/ FetchFail(SeqThread)
    \/ SetStep(SeqThread)
    \/ SetFail(SeqThread)
    \/ BodyReturn(SeqThread)
    \/ BodyRaise(SeqThread)
    \/ UnsetDel(SeqThread)
    \/ UnsetKeyError(SeqThread)
    \/ Finish(SeqThread)

\* the functions registered when several registering callers are explored
RegObjects ==
    {o \in Objects : o.name # NoName /\ o.isCallable /\ o.sigOK /\ o.annotated}

\* two callers register at the same time; a thread may be switched out
\* between any two statements of decorator_register
NextConcReg ==
    \/ Construct(SeqThread)
    \/ \E t \in Threads, d \in Descriptions, f \in RegObjects :
          RegStart(t, d, <<>>, f)
    \/ \E t \in Threads : RegStoreInt(t)
    \/ \E t \in Threads : RegStoreMeta(t)

SpecConcReg == Init /\ [][NextConcReg]_vars

\* one caller, one function registered with or without secrets, calls with
\* positional and keyword arguments and with or without a role
NextArgs ==
    \/ Construct(SeqThread)
    \/ \E s \in SecretLists, f \in ConcObjects :
          decorator_register(SeqThread, "d1", s, f)
    \/ \E k \in ConcKeys, c \in Calls : InvokeWith(SeqThread, k, c)
    \/ FetchOk(SeqThread, ConcKVSeqs)
    \/ FetchFail(SeqThread)
    \/ SetStep(SeqThread)
    \/ BodyReturn(SeqThread)
    \/ BodyRaise(SeqThread)
    \/ UnsetDel(SeqThread)
    \/ UnsetKeyError(SeqThread)
    \/ Finish(SeqThread)

SpecArgs == Init /\ [][NextArgs]_vars

SpecApply == Init /\ [][NextApply]_vars

\* one caller, one integration that declares secrets, log calls that may
\* raise
NextLog ==
    \/ Construct(SeqThread)
    \/ \E f \in ConcObjects :
          decorator_register(SeqThread, "d1", <<"s1", "s2">>, f)
    \/ \E k \in ConcKeys : Invoke(SeqThread, k)
    \/ FetchOk(SeqThread, KVSeqs)
    \/ FetchFail(SeqThread)
    \/ SetStep(SeqThread)
    \/ BodyReturn(SeqThread)
    \/ BodyRaise(SeqThread)
    \/ ErrorLogFail(SeqThread)
    \/ UnsetDel(SeqThread)
    \/ UnsetKeyError(SeqThread)
    \/ UnsetLogFail(SeqThread)
    \/ Finish(SeqThread)

SpecLog == Init /\ [][NextLog]_vars

-----------------------------------------------------------------------------
(* Properties *)

SeqRange(q) == {q[i] : i \in DOMAIN q}
SecretKeys(t) == {kv.key : kv \in SeqRange(FlatKV(secret_objs[t]))}
RecordNames(objs) == [i \in DOMAIN objs |-> objs[i].name]
InvokeDone(t) == pc[t] = "done" /\ outcome[t].op = "invoke"

\* C1: after a sequential invocation has completed, by return or by raise,
\* the set of environment keys is the set that was present when it began
\* (stated for a callable body that leaves the environment alone, so that
\* any difference is the wrapper's).
C1_NoResidue ==
    \A t \in Threads :
        (InvokeDone(t) /\ bodyOps[t] = 0)
            => EnvKeySet(environ) = EnvKeySet(envBefore[t])

RegisterStep(t) ==
    /\ pc[t] = "idle"
    /\ outcome'[t] # outcome[t]
    /\ outcome'[t].op = "register"

C9_NonCallableRejected ==
    [][\A t \in Threads :
         (RegisterStep(t) /\ ~outcome'[t].arg.isCallable)
         => /\ outcome'[t].kind = "raise"
            /\ outcome'[t].val = "InvalidIntegration"
            /\ integrations' = integrations
            /\ metadata' = metadata]_vars

\* C3: when the secret fetch fails the callable is never entered, the
\* wrapper writes and deletes no environment key, the environment stays as
\* it was, and the caller gets the fetch error.
C3_FetchFailureIsClean ==
    \A t \in Threads :
        fetched[t] = "failed"
            => /\ ~called[t]
               /\ applied[t] = {}
               /\ removed[t] = {}
               /\ environ = envBefore[t]
               /\ pc[t] = "done"
               /\ outcome[t].kind = "raise"
               /\ outcome[t].val = "SecretFetchFailed"

C3_Witness ==
    \E t \in Threads :
        /\ fetched[t] = "failed"
        /\ InvokeDone(t)
        /\ cur[t].secrets # <<>>

\* C4: whenever the callable raised, the revert was performed (every secret
\* key deleted) and the caller gets the callable's own error.
C4_OriginalErrorReraised ==
    \A t \in Threads :
        (InvokeDone(t) /\ pending[t] = Raise("IntegrationError"))
            => /\ outcome[t].kind = "raise"
               /\ outcome[t].val = "IntegrationError"
               /\ SecretKeys(t) \subseteq removed[t]

\* C5: whenever the callable returned, the revert was performed (every
\* secret key deleted) and the wrapper returns that same result.
C5_ResultReturned ==
    \A t \in Threads :
        (InvokeDone(t) /\ pending[t].kind = "return")
            => /\ outcome[t].kind = "return"
               /\ outcome[t].val = pending[t].val
               /\ SecretKeys(t) \subseteq removed[t]

\* C6: in a sequential invocation every fetched (key, value) pair is in the
\* environment while the callable body runs, and those keys are absent once
\* the wrapper has returned or raised (stated for a body that leaves the
\* environment alone).
C6_SecretsOnlyDuringBody ==
    \A t \in Threads :
        /\ (pc[t] = "call" /\ bodyOps[t] = 0)
              => \A kv \in SeqRange(FlatKV(secret_objs[t])) : environ[kv.key] = kv.value
        /\ (InvokeDone(t) /\ bodyOps[t] = 0)
              => \A k \in SecretKeys(t) : environ[k] = Absent

\* C7: at most one invocation of an integration that declares secrets is
\* between the start of its environment apply and the end of its revert
\* (counting only invocations whose fetched records carry a pair).
InSpan(t) ==
    /\ pc[t] \in {"set", "call", "unset"}
    /\ cur[t].secrets # <<>>
    /\ FlatKV(secret_objs[t]) # <<>>

C7_Serialized == Cardinality({t \in Threads : InSpan(t)}) <= 1

\* C8: looking up or invoking a key that is not registered raises NotFound,
\* starts no wrapper and no secret fetch, and changes neither the
\* environment nor the two registry maps.
C8_NotFoundIsInert ==
    [][\A t \in Threads :
         ( /\ pc[t] = "idle"
           /\ outcome'[t] # outcome[t]
           /\ outcome'[t].op \in {"getitem", "invoke"}
           /\ outcome'[t].key \notin DictKeys(integrations) )
         => /\ outcome'[t].kind = "raise"
            /\ outcome'[t].val = "NotFound"
            /\ pc'[t] = "idle"
            /\ fetched'[t] = "no"
            /\ environ' = environ
            /\ integrations' = integrations
            /\ metadata' = metadata]_vars

C8_Witness ==
    \E t \in Threads :
        /\ outcome[t].op = "invoke"
        /\ outcome[t].val = "NotFound"
        /\ outcome[t].key \notin DictKeys(integrations)
        /\ integrations # <<>>

\* C10: the callable body is reached by an integration that declares
\* secrets only after a record for every declared name was fetched and every
\* pair of every record was written; nothing is written unless the fetch
\* gave a record for every name.
C10_NeverHalfAuthenticated ==
    \A t \in Threads :
        /\ (pc[t] = "call" /\ cur[t].secrets # <<>>)
              => /\ fetched[t] = "ok"
                 /\ RecordNames(secret_objs[t]) = cur[t].secrets
                 /\ SeqRange(FlatKV(secret_objs[t])) \subseteq applied[t]
        /\ applied[t] # {}
              => /\ fetched[t] = "ok"
                 /\ RecordNames(secret_objs[t]) = cur[t].secrets

C10_Witness ==
    \E t \in Threads :
        /\ pc[t] = "call"
        /\ Len(cur[t].secrets) = 2
        /\ Len(FlatKV(secret_objs[t])) >= 2
        /\ SeqRange(FlatKV(secret_objs[t])) \subseteq applied[t]

\* C11: list_integrations() is the keys of the register calls that returned,
\* in the order they returned, and get_registered_integration_specs() is
\* their specifications in that same order, one per key.
C11_ListingsFollowRegistrations ==
    /\ list_integrations = [i \in DOMAIN registered |-> registered[i].key]
    /\ get_registered_integration_specs.kind = "return"
    /\ get_registered_integration_specs.specs =
          [i \in DOMAIN registered |-> registered[i].spec]
    /\ \A i, j \in DOMAIN integrations :
          integrations[i].key = integrations[j].key => i = j

\* C12: an entry of either map is never removed, moved or replaced: once a
\* key is registered it stays registered with the same wrapped callable and
\* the same metadata, whatever operation comes next.
C12_RegisteredIsTerminal ==
    [][/\ \A i \in DOMAIN integrations :
            i \in DOMAIN integrations' /\ integrations'[i] = integrations[i]
       /\ \A i \in DOMAIN metadata :
            i \in DOMAIN metadata' /\ metadata'[i] = metadata[i]]_vars

C12_Witness ==
    \E t \in Threads :
        /\ InvokeDone(t)
        /\ cur[t].key \in DictKeys(integrations)
        /\ cur[t].key \in DictKeys(metadata)
        /\ DictGet(integrations, cur[t].key) = cur[t]

ConstructStep(t) ==
    /\ pc[t] = "idle"
    /\ outcome'[t] # outcome[t]
    /\ outcome'[t].op = "construct"

\* C13: a construction of Registry after the first returns the instance
\* that exists (_instance stays set) and leaves both maps as they are.
C13_LaterConstructionKeepsMaps ==
    [][\A t \in Threads :
         (ConstructStep(t) /\ constructed)
         => /\ constructed'
            /\ outcome'[t].kind = "return"
            /\ outcome'[t].val = "instance"
            /\ integrations' = integrations
            /\ metadata' = metadata]_vars

C13_Witness ==
    \E t \in Threads :
        /\ outcome[t].op = "construct"
        /\ integrations # <<>>
        /\ metadata # <<>>

\* C17: the two maps always have the same keys, so
\* get_registered_integration_specs() never fails.
C17_MapsHaveSameKeys ==
    /\ DictKeys(integrations) = DictKeys(metadata)
    /\ get_registered_integration_specs.kind = "return"

\* C15: _set_secrets followed at once by _unset_secrets on the same records
\* raises nothing and leaves the set of environment keys as it was, for the
\* environment and the records of every invocation that starts to apply.
C15_ApplyRevertRestoresKeys ==
    \A t \in Threads :
        (pc[t] = "set" /\ idx[t] = 1)
        => LET kvs == FlatKV(secret_objs[t])
               a == set_secrets(environ, kvs)
               r == unset_secrets(a.env, kvs)
           IN  /\ a.err = "none"
               /\ r.err = "none"
               /\ EnvKeySet(r.env) = EnvKeySet(environ)

\* C18: when _set_secrets fails after some pairs were written, the revert
\* deletes exactly the keys that were written, the set of environment keys
\* ends as it began, and the caller gets the error of the failed write.
C18_PartialApplyReverted ==
    \A t \in Threads :
        (InvokeDone(t) /\ pending[t] = Raise("ValueError") /\ applied[t] # {})
        => /\ removed[t] = {kv.key : kv \in applied[t]}
           /\ EnvKeySet(environ) = EnvKeySet(envBefore[t])
           /\ outcome[t].kind = "raise"
           /\ outcome[t].val = "ValueError"

\* C20: when a log call of the wrapper or of the revert has raised, every
\* key the invocation wrote has still been deleted when the wrapper exits.
C20_CleanupSurvivesLogFailure ==
    \A t \in Threads :
        (InvokeDone(t) /\ "LogError" \in {pending[t].val, outcome[t].val})
        => \A kv \in applied[t] : kv.key \in removed[t]

\* C16: with two callers interleaved, every key written for an invocation is
\* in the environment for as long as its callable runs, and the revert of an
\* invocation whose own records name each key once never raises KeyError.
C16_KeysStayDuringBody ==
    \A t \in Threads :
        LET kvs == FlatKV(secret_objs[t])
        IN  /\ pc[t] = "call" => \A kv \in applied[t] : environ[kv.key] # Absent
            /\ (/\ InvokeDone(t)
                /\ \A i, j \in 1..Len(kvs) : kvs[i].key = kvs[j].key => i = j)
               => outcome[t].val # "KeyError"

\* C19: with register calls interleaved, no key is registered twice, and the
\* entry of every register call that returned is the entry its key has.
C19_RegisterIsInsertOrFail ==
    /\ \A i, j \in DOMAIN registered :
           registered[i].key = registered[j].key => i = j
    /\ \A i \in DOMAIN registered :
           (reg = [t \in Threads |-> NoReg])
           => /\ registered[i].key \in DictKeys(metadata)
              /\ DictGet(metadata, registered[i].key).specification = registered[i].spec

\* the role a call names, or the service role when it names none
GivenRole(call) ==
    IF \E p \in call.kwargs : p[1] = RoleKw
    THEN (CHOOSE p \in call.kwargs : p[1] = RoleKw)[2]
    ELSE ServiceRole

\* C14: the role passed to the wrapper, or the service role when none is
\* passed, is the role the secret fetch is made with; the callable receives
\* the positional arguments as given and the keyword arguments as given
\* without the role.
C14_RoleConsumedArgsForwarded ==
    \A t \in Threads :
        /\ fetched[t] # "no" => frame[t].sent = GivenRole(frame[t].given)
        /\ called[t]
           => /\ frame[t].fwd.args = frame[t].given.args
              /\ frame[t].fwd.kwargs = {p \in frame[t].given.kwargs : p[1] # RoleKw}
              /\ \A p \in frame[t].fwd.kwargs : p[1] # RoleKw

\* a call with a role, a positional and a keyword argument was fetched for
\* and forwarded
C14_Witness ==
    \E t \in Threads :
        /\ called[t]
        /\ fetched[t] = "ok"
        /\ frame[t].sent \in Roles
        /\ frame[t].given.args # <<>>
        /\ \E p \in frame[t].given.kwargs : p[1] = RoleKw
        /\ \E p \in frame[t].given.kwargs : p[1] # RoleKw

====
